---- MODULE Spec2Model ----
(***************************************************************************)
(* PEmbroider web service: the job lifecycle of the render server.         *)
(*                                                                         *)
(*  - src/web/server.js lines 217-605: the gated server, POST              *)
(*    /api/generate wrapped in withConcurrency (specifications Spec and    *)
(*    SpecIntake, which differ only in the requests Init lets arrive);     *)
(*  - src/web/server.js lines 1-215 and src/unnamed/part_000: the two      *)
(*    variants of POST /api/jobs (specification SpecJobs);                 *)
(*  - safeBaseName and path.join as pure functions (SpecSan);              *)
(*  - cleanupOldJobs next to POST /api/generate, with a clock (SpecSweep,   *)
(*    SpecSweepFair);                                                      *)
(*  - POST /api/generate with clients that give up waiting (SpecCancel).   *)
(*  - POST /api/generate under weak fairness of the server's steps         *)
(*    (SpecFair); either server, one at a time (SpecServers);              *)
(*  - the artifact routes GET /api/jobs/:id/:file, /api/job/:id/preview    *)
(*    and /pes (SpecGet);                                                  *)
(*  - setup() of the renderer sketch, src/unnamed/part_003 (SpecRend).     *)
(*                                                                         *)
(* Node runs one callback at a time.  A callback of the event loop (a      *)
(* request arriving, a file operation completing, a child closing, a timer *)
(* firing) runs to its next await, and every promise continuation it       *)
(* makes ready runs before the next callback of the event loop.  The       *)
(* variable micro holds those ready continuations; the event-loop actions  *)
(* are enabled only when it is empty.                                      *)
(***************************************************************************)
EXTENDS Integers, Sequences, FiniteSets, TLC

(***************************************************************************)
(* Bounds of the model.                                                    *)
(***************************************************************************)
\* requests that arrive in a run of Spec
NumReq == 3
\* requests that arrive in a run of SpecIntake
NumReqIntake == 2
\* requests that arrive in a run of SpecJobs
NumReqJobs == 2
\* requests that arrive in a run of SpecSweep
NumReqSweep == 2
\* hours the clock of SpecSweep runs
MaxTime == 2
\* largest MAX_CONCURRENT a run of Spec is configured with
MaxSlots == 2
\* longest file name SpecSan feeds to safeBaseName
MaxNameLen == 4

\* .slice(0, 120) of safeBaseName
NameMax == 120

(***************************************************************************)
(* Strings are sequences of characters.  "a" stands for the letters and    *)
(* digits, "?" for every character outside [a-zA-Z0-9._-].                 *)
(***************************************************************************)
Digits == {"0", "1", "2", "3"}
SafeChars == {"a", ".", "_", "-"} \cup Digits
InputChars == {"a", ".", "/", "?"}

RECURSIVE StripTrailingSlashes(_)
StripTrailingSlashes(s) ==
  IF s # <<>> /\ s[Len(s)] = "/"
    THEN StripTrailingSlashes(SubSeq(s, 1, Len(s) - 1))
    ELSE s

RECURSIVE AfterLastSlash(_)
AfterLastSlash(s) ==
  IF s = <<>> THEN <<>>
  ELSE IF s[Len(s)] = "/" THEN <<>>
  ELSE Append(AfterLastSlash(SubSeq(s, 1, Len(s) - 1)), s[Len(s)])

\* path.basename (posix): drop the trailing separators, keep what follows
\* the last separator that is left
Basename(s) == AfterLastSlash(StripTrailingSlashes(s))

\* .replace(/[^a-zA-Z0-9._-]/g, "_")
ReplaceUnsafe(s) == [i \in 1..Len(s) |-> IF s[i] \in SafeChars THEN s[i] ELSE "_"]

\* a plausible slip: .slice(1, n)
Slice_FromOne(s, n) == SubSeq(s, 2, IF Len(s) < n THEN Len(s) ELSE n)

\* .slice(0, n)
Slice(s, n) == SubSeq(s, 1, IF Len(s) < n THEN Len(s) ELSE n)

safeBaseName(filename) == Slice(ReplaceUnsafe(Basename(filename)), NameMax)

(***************************************************************************)
(* Paths are sequences of components.  path.join normalises: an empty      *)
(* component and "." are dropped, ".." removes the component before it.    *)
(***************************************************************************)
RECURSIVE Components(_)
Components(s) ==
  IF s = <<>> THEN <<>>
  ELSE LET cut == IF \E i \in 1..Len(s) : s[i] = "/"
                    THEN CHOOSE i \in 1..Len(s) :
                           s[i] = "/" /\ \A j \in 1..(i - 1) : s[j] # "/"
                    ELSE Len(s) + 1
           head == SubSeq(s, 1, cut - 1)
           rest == SubSeq(s, cut + 1, Len(s))
       IN IF head = <<>> THEN Components(rest) ELSE <<head>> \o Components(rest)

RECURSIVE Normalize(_, _)
Normalize(done, todo) ==
  IF todo = <<>> THEN done
  ELSE LET c == Head(todo)
       IN IF c = <<".">> THEN Normalize(done, Tail(todo))
          ELSE IF c = <<".", ".">>
            THEN Normalize(IF done = <<>> THEN <<>> ELSE SubSeq(done, 1, Len(done) - 1),
                           Tail(todo))
          ELSE Normalize(Append(done, c), Tail(todo))

\* path.join(dir, name), dir an absolute normalised path
Join(dir, name) == Normalize(dir, Components(name))

IsPrefix(p, q) == Len(p) <= Len(q) /\ SubSeq(q, 1, Len(p)) = p
StrictlyInside(dir, p) == IsPrefix(dir, p) /\ Len(p) > Len(dir)


(***************************************************************************)
(* The gated server: POST /api/generate (src/web/server.js 217-605).       *)
(***************************************************************************)
VARIABLES
  regime,             \* which requests Init lets arrive: "gate", "intake",
                      \* "sweep", or "off" (the gated server is not run)
  MAX_CONCURRENT,     \* configuration
  REQUIRE_CLASS_KEY,  \* configuration: CLASS_KEY is not empty
  serverUp,           \* the node process is running
  arrived,            \* number of requests received so far
  active,             \* slots taken
  queue,              \* resolve functions of the waiting requests, by request
  micro,              \* continuations that are ready, in the order they run
  admitted,           \* history: the requests in the order their job started
  pc,                 \* where each request's handler is suspended
  req,                \* req.files and req.body.spec
  resp,               \* the response sent
  dirs,               \* directories of the job
  files,              \* files under the job's directory: path -> upload
  savedNames,         \* savedNames of the handler
  specFile,           \* spec.json of the job: written, and its layers[].file
  out,                \* files of out/ that were there when the handler looked
  child,              \* the renderer process: state, exitCode, signal sent
  checks              \* hasPreview, hasPes

serverVars == <<regime, MAX_CONCURRENT, REQUIRE_CLASS_KEY, serverUp, arrived,
                active, queue, micro, admitted, pc, req, resp, dirs, files,
                savedNames, specFile, out, child, checks>>

NumRequests ==
  IF regime = "gate" THEN NumReq
  ELSE IF regime = "sweep" THEN NumReqSweep
  ELSE NumReqIntake
Reqs == 1..NumRequests

\* file names the model's clients send
NameA == <<"a">>
NameDotDot == <<".", ".">>
NameOther == <<"a", "a">>

\* req.body.spec: absent or empty, not JSON, a JSON value with its
\* layers[].file, or a JSON value that is falsy (null, 0, false, "")
NoSpec == [given |-> FALSE, parses |-> FALSE, falsy |-> FALSE, layers |-> <<>>]
BadJsonSpec == [given |-> TRUE, parses |-> FALSE, falsy |-> FALSE, layers |-> <<>>]
SpecWith(layerFiles) ==
  [given |-> TRUE, parses |-> TRUE, falsy |-> FALSE, layers |-> layerFiles]
FalsySpec == [given |-> TRUE, parses |-> TRUE, falsy |-> TRUE, layers |-> <<>>]

NoRequest == [files |-> <<>>, spec |-> NoSpec]

\* the requests of Spec: no file, or one file and no spec
GateInputs ==
  { [files |-> <<>>, spec |-> NoSpec],
    [files |-> <<NameA>>, spec |-> NoSpec] }

\* the requests of SpecIntake
IntakeInputs ==
  GateInputs \cup
  { [files |-> <<NameA>>, spec |-> BadJsonSpec],
    [files |-> <<NameA>>, spec |-> SpecWith(<<>>)],
    [files |-> <<NameA>>, spec |-> SpecWith(<<NameA>>)],
    [files |-> <<NameA>>, spec |-> SpecWith(<<NameOther>>)],
    [files |-> <<NameA>>, spec |-> FalsySpec],
    [files |-> <<NameA, NameA>>, spec |-> NoSpec],
    [files |-> <<NameDotDot>>, spec |-> NoSpec] }

Inputs == IF regime = "intake" THEN IntakeInputs ELSE GateInputs

\* x-class-key of a request: absent, the configured key, another value
HeaderKeys == {"", "key", "other"}
CLASS_KEY == "key"

\* a plausible slip: the id is made once, when the module is loaded
JobId_Shared(r) == <<"job", "1">>

\* const jobId = uuid(): crypto.randomUUID(), a new id at every call
JobId(r) == <<"job", ToString(r)>>
JOBS_ROOT == << <<"JOBS_ROOT">> >>
JobDir(r) == Append(JOBS_ROOT, JobId(r))
LayersDir(r) == Append(JobDir(r), <<"layers">>)
OutDir(r) == Append(JobDir(r), <<"out">>)
SpecPath(r) == Append(JobDir(r), <<"spec.json">>)

PreviewName == "preview.png"
PesName == "design.pes"

NoChild == [st |-> "none", exitCode |-> "null", signal |-> "none", timer |-> "none"]
NoSpecFile == [written |-> FALSE, synthesized |-> FALSE, layers |-> <<>>]
NoChecks == [hasPreview |-> FALSE, hasPes |-> FALSE]

\* Spec ("gate") varies MAX_CONCURRENT and has the class key set; SpecIntake
\* ("intake") runs the default MAX_CONCURRENT and varies whether a key is set
InitServer(rg) ==
  /\ regime = rg
  /\ MAX_CONCURRENT \in (IF rg = "gate" THEN 1..MaxSlots ELSE {1})
  /\ REQUIRE_CLASS_KEY \in (IF rg = "intake" THEN BOOLEAN ELSE {TRUE})
  /\ serverUp = (rg # "off")
  /\ arrived = 0
  /\ active = 0
  /\ queue = <<>>
  /\ micro = <<>>
  /\ admitted = <<>>
  /\ pc = [r \in Reqs |-> "idle"]
  /\ req = [r \in Reqs |-> NoRequest]
  /\ resp = [r \in Reqs |-> "none"]
  /\ dirs = [r \in Reqs |-> {}]
  /\ files = [r \in Reqs |-> <<>>]
  /\ savedNames = [r \in Reqs |-> <<>>]
  /\ specFile = [r \in Reqs |-> NoSpecFile]
  /\ out = [r \in Reqs |-> {}]
  /\ child = [r \in Reqs |-> NoChild]
  /\ checks = [r \in Reqs |-> NoChecks]

\* the event loop takes its next callback only when no continuation is ready
LoopIdle == serverUp /\ micro = <<>>

\* authMiddleware
AuthPasses(headerKey) ==
  IF ~REQUIRE_CLASS_KEY THEN TRUE
  ELSE headerKey # "" /\ headerKey = CLASS_KEY

\* a plausible slip: the gate lets one more job in
GateFull_OffByOne == active > MAX_CONCURRENT

\* withConcurrency: if (active >= MAX_CONCURRENT)
GateFull == active >= MAX_CONCURRENT

\* a plausible slip: queue.pop() takes the newest waiter
QueueShift_Pop(q) == [next |-> q[Len(q)], rest |-> SubSeq(q, 1, Len(q) - 1)]

\* a plausible slip: the waiter is woken and left in the list
QueueShift_Peek(q) == [next |-> Head(q), rest |-> q]

\* a plausible slip: queue.unshift(resolve)
QueuePush_Front(q, r) == <<r>> \o q

\* queue.push(resolve)
QueuePush(q, r) == Append(q, r)

\* queue.shift()
QueueShift(q) == [next |-> Head(q), rest |-> Tail(q)]

\* a plausible slip: only a missing files array is rejected
NoFiles_OnlyMissing(fs) == FALSE

\* !req.files || req.files.length === 0
NoFiles(fs) == Len(fs) = 0


(***************************************************************************)
(* Steps of the handler.  Respond sends the response and returns from the  *)
(* job: the finally block of withConcurrency becomes a ready continuation. *)
(***************************************************************************)
\* a plausible slip: the resolver taken from the list is not called
WakeNext_Dropped(m, next) == m

\* if (next) next(): the waiter's continuation becomes ready
WakeNext(m, next) == Append(m, next)

\* a plausible slip: the job is not run inside try/finally, and a return
\* skips the release
Respond_NoRelease(r, kind) ==
  /\ resp' = [resp EXCEPT ![r] = kind]
  /\ pc' = [pc EXCEPT ![r] = "done"]
  /\ micro' = micro

Respond(r, kind) ==
  /\ resp' = [resp EXCEPT ![r] = kind]
  /\ pc' = [pc EXCEPT ![r] = "finishing"]
  /\ micro' = Append(micro, r)

\* the job starts: await ensureDir(layersDir) is pending
StartJob(r) ==
  /\ active' = active + 1
  /\ admitted' = Append(admitted, r)

\* a request arrives with its header, its files and its spec field:
\* authMiddleware, upload.array, then the handler enters withConcurrency
Arrive(headerKey, input) ==
  /\ LoopIdle
  /\ arrived < NumRequests
  /\ LET r == arrived + 1 IN
     /\ arrived' = r
     /\ IF ~AuthPasses(headerKey)
          THEN /\ resp' = [resp EXCEPT ![r] = "Unauthorized"]
               /\ pc' = [pc EXCEPT ![r] = "unauthorized"]
               /\ UNCHANGED <<req, active, admitted, queue>>
          ELSE /\ req' = [req EXCEPT ![r] = input]
               /\ resp' = resp
               /\ IF GateFull
                    THEN /\ queue' = QueuePush(queue, r)
                         /\ pc' = [pc EXCEPT ![r] = "waiting"]
                         /\ UNCHANGED <<active, admitted>>
                    ELSE /\ StartJob(r)
                         /\ pc' = [pc EXCEPT ![r] = "mkLayers"]
                         /\ queue' = queue
  /\ UNCHANGED <<out, regime, MAX_CONCURRENT, REQUIRE_CLASS_KEY, serverUp, micro,
                 dirs, files, savedNames, specFile, child, checks>>

\* finally { active--; const next = queue.shift(); if (next) next(); }
Release ==
  /\ serverUp
  /\ micro # <<>>
  /\ LET r == Head(micro) IN
     /\ pc[r] = "finishing"
     /\ active' = active - 1
     /\ IF queue # <<>>
          THEN LET s == QueueShift(queue) IN
               /\ queue' = s.rest
               /\ pc' = [pc EXCEPT ![r] = "done", ![s.next] = "woken"]
               /\ micro' = WakeNext(Tail(micro), s.next)
          ELSE /\ queue' = queue
               /\ pc' = [pc EXCEPT ![r] = "done"]
               /\ micro' = Tail(micro)
  /\ UNCHANGED <<out, regime, MAX_CONCURRENT, REQUIRE_CLASS_KEY, serverUp, arrived,
                 admitted, req, resp, dirs, files, savedNames, specFile,
                 child, checks>>

\* the continuation of a woken waiter: active++, then the job starts
Admit ==
  /\ serverUp
  /\ micro # <<>>
  /\ LET r == Head(micro) IN
     /\ pc[r] = "woken"
     /\ StartJob(r)
     /\ pc' = [pc EXCEPT ![r] = "mkLayers"]
     /\ micro' = Tail(micro)
  /\ UNCHANGED <<out, regime, MAX_CONCURRENT, REQUIRE_CLASS_KEY, serverUp, arrived,
                 queue, req, resp, dirs, files, savedNames, specFile,
                 child, checks>>

\* await ensureDir(layersDir) completes (mkdir -p: the job's directory too)
MkLayersDone(r) ==
  /\ LoopIdle
  /\ pc[r] = "mkLayers"
  /\ dirs' = [dirs EXCEPT ![r] = @ \cup {JobDir(r), LayersDir(r)}]
  /\ pc' = [pc EXCEPT ![r] = "mkOut"]
  /\ UNCHANGED <<out, regime, MAX_CONCURRENT, REQUIRE_CLASS_KEY, serverUp, arrived,
                 active, queue, micro, admitted, req, resp, files, savedNames,
                 specFile, child, checks>>

\* await ensureDir(outDir) completes; then the files and the spec field are
\* looked at and the first writeFile is started
MkOutDone(r) ==
  /\ LoopIdle
  /\ pc[r] = "mkOut"
  /\ dirs' = [dirs EXCEPT ![r] = @ \cup {JobDir(r), OutDir(r)}]
  /\ IF NoFiles(req[r].files)
       THEN Respond(r, "NoFilesError")
     ELSE IF req[r].spec.given /\ ~req[r].spec.parses
       THEN Respond(r, "InvalidSpecJSON")
     ELSE /\ pc' = [pc EXCEPT ![r] = "writeLayer"]
          /\ UNCHANGED <<resp, micro>>
  /\ UNCHANGED <<out, regime, MAX_CONCURRENT, REQUIRE_CLASS_KEY, serverUp, arrived,
                 active, queue, admitted, req, files, savedNames, specFile,
                 child, checks>>


Parent(p) == SubSeq(p, 1, Len(p) - 1)
IsDirectory(r, p) == p \in dirs[r] \/ IsPrefix(p, JOBS_ROOT)

\* fsp.writeFile rejects: the path is a directory, or its parent is none
WriteFails(r, dst) == IsDirectory(r, dst) \/ ~IsDirectory(r, Parent(dst))

\* f.originalname || `layer-${savedNames.length}.png`
NameOrFallback(originalname, n) ==
  IF originalname # <<>> THEN originalname
  ELSE <<"a", "-", ToString(n), ".", "a">>

\* the name the loop gives to the i-th file of the request
LayerName(r, i) == safeBaseName(NameOrFallback(req[r].files[i], i - 1))

\* if (!spec) is false: the field was there, it parsed, and the value parsed
\* is truthy
ClientSpecKept(r) ==
  req[r].spec.given /\ req[r].spec.parses /\ ~req[r].spec.falsy

\* the spec after the loop: the client's, or one layer per saved name
SpecLayers(r, saved) ==
  IF ClientSpecKept(r) THEN req[r].spec.layers ELSE saved

\* await fsp.writeFile(dst, f.buffer) completes for the next file; after the
\* last file the spec is settled and the write of spec.json is started
WriteLayerDone(r) ==
  /\ LoopIdle
  /\ pc[r] = "writeLayer"
  /\ LET i == Len(savedNames[r]) + 1
         name == LayerName(r, i)
         dst == Join(LayersDir(r), name)
         saved == Append(savedNames[r], name)
     IN IF WriteFails(r, dst)
          THEN /\ Respond(r, "ServerError")
               /\ UNCHANGED <<files, savedNames>>
          ELSE /\ files' = [files EXCEPT ![r] = (dst :> i) @@ @]
               /\ savedNames' = [savedNames EXCEPT ![r] = saved]
               /\ IF i < Len(req[r].files)
                    THEN UNCHANGED <<pc, resp, micro>>
                  ELSE IF SpecLayers(r, saved) = <<>>
                    THEN Respond(r, "BadLayers")
                  ELSE /\ pc' = [pc EXCEPT ![r] = "writeSpec"]
                       /\ UNCHANGED <<resp, micro>>
  /\ UNCHANGED <<out, regime, MAX_CONCURRENT, REQUIRE_CLASS_KEY, serverUp, arrived,
                 active, queue, admitted, req, dirs, specFile, child,
                 checks>>

\* await fsp.writeFile(spec.json) completes; spawn(cmd, args), the listeners
\* and the timer.  A spawn that fails (ENOENT, EACCES) returns a child whose
\* 'error' event is emitted on the next tick.  A write that is rejected (the
\* job's directory is gone) goes to the catch block.
WriteSpecDone(r, spawnOk) ==
  /\ LoopIdle
  /\ pc[r] = "writeSpec"
  /\ IF WriteFails(r, SpecPath(r))
       THEN /\ Respond(r, "ServerError")
            /\ UNCHANGED <<specFile, files, child>>
       ELSE /\ specFile' = [specFile EXCEPT
                              ![r] = [written |-> TRUE,
                                      synthesized |-> ~ClientSpecKept(r),
                                      layers |-> SpecLayers(r, savedNames[r])]]
            /\ files' = [files EXCEPT ![r] = (SpecPath(r) :> 0) @@ @]
            /\ pc' = [pc EXCEPT ![r] = "running"]
            /\ resp' = resp
            /\ IF spawnOk
                 THEN /\ child' = [child EXCEPT ![r].st = "running",
                                                ![r].timer = "armed"]
                      /\ micro' = micro
                 ELSE /\ child' = [child EXCEPT ![r].st = "failed",
                                                ![r].timer = "armed"]
                      /\ micro' = Append(micro, r)
  /\ UNCHANGED <<out, regime, MAX_CONCURRENT, REQUIRE_CLASS_KEY, serverUp, arrived,
                 active, queue, admitted, req, dirs, savedNames,
                 checks>>

\* the 'error' event of a child that could not be spawned: no handler
\* registers a listener for it, so emitting it throws and the process ends
ChildErrorEvent ==
  /\ serverUp
  /\ micro # <<>>
  /\ LET r == Head(micro) IN
     /\ pc[r] = "running"
     /\ child[r].st = "failed"
     /\ micro' = Tail(micro)
  /\ serverUp' = FALSE
  /\ UNCHANGED <<out, regime, MAX_CONCURRENT, REQUIRE_CLASS_KEY, arrived, active,
                 queue, admitted, pc, req, resp, dirs, files, savedNames,
                 specFile, child, checks>>

\* child.kill("SIGKILL")
KillSignal == "SIGKILL"

\* a plausible slip: the timeout is not told apart from a failed exit
RenderVerdict_NoTimeoutKind(killedByTimeout, exitCode) ==
  IF exitCode # "0" THEN "RenderExitError" ELSE "checkOutputs"

\* if (killedByTimeout) ...; if (exitCode !== 0) ...
RenderVerdict(killedByTimeout, exitCode) ==
  IF killedByTimeout THEN "RenderTimeout"
  ELSE IF exitCode # "0" THEN "RenderExitError"
  ELSE "checkOutputs"

\* a plausible slip: the close listener answers by itself, as the one of
\* POST /api/jobs does, next to the timer's answer
KilledByTimeoutPending_Always(r) == TRUE

\* a plausible slip: the handler goes by the child, not by the promise, and
\* answers again when the killed child closes
KilledByTimeoutPending_UntilClosed(r) == child[r].st # "closed"

\* the promise awaited as killedByTimeout is not resolved yet: resolve() of a
\* resolved promise does nothing
KilledByTimeoutPending(r) == pc[r] = "running"

\* a plausible slip: the close listener leaves the timer armed
ClearTimeout_Forgotten(t) == t

\* clearTimeout(t): a timer that is armed will not fire
ClearTimeout(t) == IF t = "armed" THEN "cleared" ELSE t

\* the timer fires: kill, resolve(true).  It is armed at spawn and cleared by
\* the close listener, so while it is armed the child has not closed.
TimerFire(r) ==
  /\ LoopIdle
  /\ child[r].timer = "armed"
  /\ child' = [child EXCEPT ![r].st = IF @ = "running" THEN "killed" ELSE @,
                            ![r].signal = KillSignal,
                            ![r].timer = "fired"]
  /\ IF KilledByTimeoutPending(r)
       THEN Respond(r, RenderVerdict(TRUE, child[r].exitCode))
       ELSE UNCHANGED <<pc, resp, micro>>
  /\ UNCHANGED <<out, regime, MAX_CONCURRENT, REQUIRE_CLASS_KEY, serverUp, arrived,
                 active, queue, admitted, req, dirs, files, savedNames,
                 specFile, checks>>

\* the child's 'close' event: clearTimeout, resolve(false).  The renderer ran
\* on its own to an exit code, or it was killed.
ChildClose(r, code) ==
  /\ LoopIdle
  /\ child[r].st \in {"running", "killed"}
  /\ code = "null" <=> child[r].st = "killed"
  /\ child' = [child EXCEPT ![r].st = "closed", ![r].exitCode = code,
                            ![r].timer = ClearTimeout(@)]
  /\ IF KilledByTimeoutPending(r)
       THEN LET v == RenderVerdict(FALSE, code) IN
            IF v = "checkOutputs"
              THEN /\ pc' = [pc EXCEPT ![r] = "chkPreview"]
                   /\ UNCHANGED <<resp, micro>>
              ELSE Respond(r, v)
       ELSE UNCHANGED <<pc, resp, micro>>
  /\ UNCHANGED <<out, regime, MAX_CONCURRENT, REQUIRE_CLASS_KEY, serverUp, arrived,
                 active, queue, admitted, req, dirs, files, savedNames,
                 specFile, checks>>

\* fileExists(p): true when fsp.access(p) succeeds, false when it throws
fileExists(accessOk) == accessOk

\* await fileExists(previewPath) completes; the renderer left out/preview.png
\* or it did not
ChkPreviewDone(r, previewThere) ==
  /\ LoopIdle
  /\ pc[r] = "chkPreview"
  /\ previewThere => OutDir(r) \in dirs[r]
  /\ checks' = [checks EXCEPT ![r].hasPreview = fileExists(previewThere)]
  /\ out' = [out EXCEPT ![r] = IF previewThere THEN @ \cup {PreviewName} ELSE @]
  /\ pc' = [pc EXCEPT ![r] = "chkPes"]
  /\ UNCHANGED <<regime, MAX_CONCURRENT, REQUIRE_CLASS_KEY, serverUp, arrived,
                 active, queue, micro, admitted, req, resp, dirs, files,
                 savedNames, specFile, child>>

\* a plausible slip: one output is enough
OutputsMissing_Both(hasPreview, hasPes) == ~hasPreview /\ ~hasPes

\* if (!hasPreview || !hasPes)
OutputsMissing(hasPreview, hasPes) == ~hasPreview \/ ~hasPes

\* await fileExists(pesPath) completes: the missing-outputs response or the
\* success response.  (cleanupOldJobs is then started and not awaited; it
\* belongs to the retention sweeper.)
ChkPesDone(r, pesThere) ==
  /\ LoopIdle
  /\ pc[r] = "chkPes"
  /\ pesThere => OutDir(r) \in dirs[r]
  /\ LET hasPes == fileExists(pesThere) IN
     /\ out' = [out EXCEPT ![r] = IF pesThere THEN @ \cup {PesName} ELSE @]
     /\ checks' = [checks EXCEPT ![r].hasPes = hasPes]
     /\ IF OutputsMissing(checks[r].hasPreview, hasPes)
          THEN Respond(r, "IncompleteOutputError")
          ELSE Respond(r, "ok")
  /\ UNCHANGED <<regime, MAX_CONCURRENT, REQUIRE_CLASS_KEY, serverUp, arrived,
                 active, queue, admitted, req, dirs, files, savedNames,
                 specFile, child>>

ExitCodes == {"0", "1", "null"}

(***************************************************************************)
(* Properties of the gated server.                                         *)
(***************************************************************************)
\* the requests whose job holds a slot: started and not yet released
SlotHolders ==
  {r \in Reqs : pc[r] \in {"mkLayers", "mkOut", "writeLayer", "writeSpec",
                           "running", "chkPreview", "chkPes", "finishing"}}

\* the requests that wait for a slot: in the queue, or woken and not started
Waiters == {r \in Reqs : pc[r] \in {"waiting", "woken"}}

\* C1: with MAX_CONCURRENT >= 1, in every reachable state the counter active,
\* and the number of jobs that hold a slot, is at most MAX_CONCURRENT.
C1_ActiveWithinLimit ==
  /\ active <= MAX_CONCURRENT
  /\ Cardinality(SlotHolders) <= MAX_CONCURRENT

\* a waiter has been woken by a release and has not taken its slot yet, while
\* the other slot of two is taken
C1_Witness ==
  /\ MAX_CONCURRENT = 2
  /\ active = 1
  /\ \E r \in Reqs : pc[r] = "woken"

\* C2: requests are numbered in arrival order; the jobs start in arrival
\* order, and no job has started while a request that arrived before it still
\* waits.
C2_FifoAdmission ==
  /\ \A i, j \in 1..Len(admitted) : i < j => admitted[i] < admitted[j]
  /\ \A w \in Waiters : \A i \in 1..Len(admitted) : admitted[i] < w

\* two requests had to wait: the older one has just been woken, the younger
\* one is still in the queue
C2_Witness ==
  \E a, b \in Reqs :
    /\ a < b
    /\ pc[a] = "woken"
    /\ queue # <<>> /\ Head(queue) = b

\* C3: a success response is sent only if the renderer closed with exit code 0
\* and out/preview.png and out/design.pes were both there.
C3_SuccessNeedsExitZeroAndOutputs ==
  \A r \in Reqs :
    resp[r] = "ok" =>
      /\ child[r].st = "closed"
      /\ child[r].exitCode = "0"
      /\ out[r] = {PreviewName, PesName}

\* one job succeeded, and another one exited 0 with an output missing and got
\* the missing-outputs error
C3_Witness ==
  \E r, q \in Reqs :
    /\ resp[r] = "ok"
    /\ resp[q] = "IncompleteOutputError"
    /\ child[q].exitCode = "0"
    /\ out[q] # {PreviewName, PesName}

\* a child the timer found running: it is killed, or it closed after the kill
TimerFound(r) ==
  \/ child[r].st = "killed"
  \/ child[r].st = "closed" /\ child[r].exitCode = "null"

\* C4: a renderer that has not closed when its timer fires is sent SIGKILL at
\* once and the response is the timeout kind; the timeout kind is sent for no
\* other reason, and the failed-exit kind only for a renderer that closed on
\* its own with a nonzero code.
C4_TimeoutKillsAndIsItsOwnKind ==
  \A r \in Reqs :
    /\ TimerFound(r) => child[r].signal = "SIGKILL" /\ resp[r] = "RenderTimeout"
    /\ resp[r] = "RenderTimeout" => TimerFound(r)
    /\ resp[r] = "RenderExitError" =>
         child[r].st = "closed" /\ child[r].exitCode \notin {"0", "null"}

\* a renderer was killed by its timer and the timeout response is out, before
\* the close event of the killed process
C4_Witness ==
  \E r \in Reqs : child[r].st = "killed" /\ resp[r] = "RenderTimeout"

\* C5: when the renderer cannot be spawned the server keeps running, and once
\* the 'error' event has been delivered the request is answered with the
\* spawn error and its slot is released.
C5_SpawnFailureIsHandled ==
  \A r \in Reqs :
    child[r].st = "failed" =>
      /\ serverUp
      /\ micro = <<>> => resp[r] = "SpawnError" /\ pc[r] = "done"

ValidationRejections ==
  {"Unauthorized", "NoFilesError", "InvalidSpecJSON", "BadLayers"}

\* C6: when a request is rejected for authorization or validation, no job
\* directory, layer file or spec.json exists for it and no renderer was
\* spawned.
C6_RejectedBeforeAnyJobState ==
  \A r \in Reqs :
    resp[r] \in ValidationRejections =>
      /\ dirs[r] = {}
      /\ files[r] = <<>>
      /\ ~specFile[r].written
      /\ child[r].st = "none"

\* the names the request's files are saved under
NamesToSave(r) == {LayerName(r, i) : i \in 1..Len(req[r].files)}

\* the supplied spec names a layer file that is not among the saved ones
ReferencesMissingFile(r) ==
  /\ req[r].spec.given /\ req[r].spec.parses
  /\ \E i \in 1..Len(req[r].spec.layers) :
       req[r].spec.layers[i] \notin NamesToSave(r)

\* C7: a request whose spec references a file that is not among its saved
\* files is rejected with MissingReferencedFile and no renderer is spawned.
C7_MissingReferenceNeverSpawns ==
  \A r \in Reqs :
    ReferencesMissingFile(r) =>
      /\ child[r].st = "none"
      /\ resp[r] \in {"none", "MissingReferencedFile"}

\* C9: once every file of a request is saved, the saved names are pairwise
\* distinct and layers/ holds the bytes of every upload.
C9_SameNamesNeverCollide ==
  \A r \in Reqs :
    (Len(req[r].files) > 0 /\ Len(savedNames[r]) = Len(req[r].files)) =>
      /\ \A i, j \in 1..Len(savedNames[r]) :
           i # j => savedNames[r][i] # savedNames[r][j]
      /\ \A i \in 1..Len(req[r].files) :
           \E p \in DOMAIN files[r] :
             StrictlyInside(LayersDir(r), p) /\ files[r][p] = i


(***************************************************************************)
(* The sanitizer as a function of the uploaded name: the name the loop     *)
(* saves a file under, and the path path.join(layersDir, name) gives it.   *)
(***************************************************************************)
VARIABLES
  sanPhase,   \* "idle", "named", "sanitized", "joined"
  sanIn,      \* f.originalname
  sanOut,     \* safeBaseName(...)
  sanDst,     \* path.join(layersDir, name)
  sanAgain    \* safeBaseName applied to the name it returned

sanVars == <<sanPhase, sanIn, sanOut, sanDst, sanAgain>>

\* the strings of at most n characters
Strings(n) == UNION {[1..k -> InputChars] : k \in 0..n}

SanLayersDir == << <<"JOBS_ROOT">>, <<"job">>, <<"layers">> >>

InitSanIdle ==
  /\ sanPhase = "idle"
  /\ sanIn = <<>>
  /\ sanOut = <<>>
  /\ sanDst = <<>>
  /\ sanAgain = <<>>

InitSan ==
  /\ sanPhase = "named"
  /\ sanIn \in Strings(MaxNameLen)
  /\ sanOut = <<>>
  /\ sanDst = <<>>
  /\ sanAgain = <<>>

\* const name = safeBaseName(f.originalname || `layer-${savedNames.length}.png`)
SanitizeName ==
  /\ sanPhase = "named"
  /\ sanOut' = safeBaseName(NameOrFallback(sanIn, 0))
  /\ sanPhase' = "sanitized"
  /\ UNCHANGED <<sanIn, sanDst, sanAgain>>

\* const dst = path.join(layersDir, name)
JoinName ==
  /\ sanPhase = "sanitized"
  /\ sanDst' = Join(SanLayersDir, sanOut)
  /\ sanPhase' = "joined"
  /\ UNCHANGED <<sanIn, sanOut, sanAgain>>

\* safeBaseName called on a name that safeBaseName returned
SanitizeAgain ==
  /\ sanPhase = "joined"
  /\ sanAgain' = safeBaseName(sanOut)
  /\ sanPhase' = "resanitized"
  /\ UNCHANGED <<sanIn, sanOut, sanDst>>

\* C8: for every uploaded name the sanitized name has only characters of
\* [a-zA-Z0-9._-], no separator, and joined to layers/ it is a path strictly
\* inside layers/.
C8_SanitizedNameStaysInsideLayers ==
  sanPhase = "joined" =>
    /\ \A i \in 1..Len(sanOut) : sanOut[i] \in SafeChars /\ sanOut[i] # "/"
    /\ StrictlyInside(SanLayersDir, sanDst)

\* C11: the sanitizer is idempotent: applied to a name it returned, it
\* returns that name.
C11_SanitizeIsIdempotent ==
  sanPhase = "resanitized" => sanAgain = sanOut

\* a name with a directory part and an unsafe character went through twice
C11_Witness ==
  /\ sanPhase = "resanitized"
  /\ \E i, j \in 1..Len(sanIn) : i < j /\ sanIn[i] = "/" /\ sanIn[j] = "?"
  /\ sanOut # sanIn


(***************************************************************************)
(* POST /api/jobs, not gated.  Variant "late" is src/web/server.js 97-187  *)
(* (the spec field is looked at after the files are saved), variant        *)
(* "early" is src/unnamed/part_000 136-228 (it is looked at first).        *)
(***************************************************************************)
VARIABLES
  jvariant,   \* which of the two handlers the server runs
  jUp,        \* the node process is running
  jarrived,   \* number of requests received so far
  jtick,      \* the request whose child's 'error' event is due, or 0
  jpc,        \* where each request's handler is suspended
  jreq,       \* the file names the client sent, req.files (their original
              \* names) and req.body.spec
  jresp,      \* the response sent
  jdirs,      \* the directories under JOBS_ROOT
  jfiles,     \* the files under JOBS_ROOT: path -> <<request, upload>>
  jout,       \* the files each job's renderer left in out/
  jsaved,     \* number of files the loop has written
  jchild      \* the renderer process

jobsVars == <<jvariant, jUp, jarrived, jtick, jpc, jreq, jresp, jdirs, jfiles,
              jout, jsaved, jchild>>

JReqs == 1..NumReqJobs

NameUp == <<".", ".", "/", "a">>

\* req.body.spec as a string: absent or empty, JSON text, other text
SpecStrings == {<<>>, <<"{">>, <<"?">>}

\* the multipart body: the filename of each part, and the spec field
JobsInputs ==
  [sent : {<<>>, <<NameA>>, <<NameUp>>, <<NameDotDot>>}, spec : SpecStrings]

NoJobsRequest == [sent |-> <<>>, files |-> <<>>, spec |-> <<>>]

DotNames == {<<".">>, <<".", ".">>}

\* what the part of a name that is "." or ".." becomes is the middleware
\* version's choice, and the source pins no version
DotNamePolicies == {"kept", "empty", "dropped"}

\* a plausible slip: multer({ preservePath: true })
OriginalNames_PreservePath(sent, dotNames) == sent

\* multer without preservePath: originalname is what follows the last
\* separator of the filename sent; a part without a name is not a file
OriginalNames(sent, dotNames) ==
  LET base == [i \in 1..Len(sent) |-> AfterLastSlash(sent[i])]
      IsNamed(n) == n # <<>> /\ n \notin DotNames
  IN IF dotNames = "kept" THEN base
     ELSE IF dotNames = "empty"
       THEN [i \in 1..Len(base) |-> IF IsNamed(base[i]) THEN base[i] ELSE <<>>]
     ELSE SelectSeq(base, IsNamed)

InitJobsIdle ==
  /\ jvariant = "none"
  /\ jUp = FALSE
  /\ jarrived = 0
  /\ jtick = 0
  /\ jpc = [r \in JReqs |-> "idle"]
  /\ jreq = [r \in JReqs |-> NoJobsRequest]
  /\ jresp = [r \in JReqs |-> "none"]
  /\ jdirs = {}
  /\ jfiles = <<>>
  /\ jout = [r \in JReqs |-> {}]
  /\ jsaved = [r \in JReqs |-> 0]
  /\ jchild = [r \in JReqs |-> NoChild]

InitJobs ==
  /\ jvariant \in {"late", "early"}
  /\ jUp = TRUE
  /\ jarrived = 0
  /\ jtick = 0
  /\ jpc = [r \in JReqs |-> "idle"]
  /\ jreq = [r \in JReqs |-> NoJobsRequest]
  /\ jresp = [r \in JReqs |-> "none"]
  /\ jdirs = {}
  /\ jfiles = <<>>
  /\ jout = [r \in JReqs |-> {}]
  /\ jsaved = [r \in JReqs |-> 0]
  /\ jchild = [r \in JReqs |-> NoChild]

JLoopIdle == jUp /\ jtick = 0

\* requireClassKey: if (!key || key !== CLASS_KEY)
JAuthPasses(headerKey) == headerKey # "" /\ headerKey = CLASS_KEY

JIsDirectory(p) == p \in jdirs \/ IsPrefix(p, JOBS_ROOT)
JWriteFails(dst) == JIsDirectory(dst) \/ ~JIsDirectory(Parent(dst))

\* const first = specText.trim()[0]; if (first !== "{" && first !== "[")
SpecLooksLikeJson(text) == text # <<>> /\ text[1] \in {"{", "["}

JRespond(r, kind) ==
  /\ jresp' = [jresp EXCEPT ![r] = kind]
  /\ jpc' = [jpc EXCEPT ![r] = "done"]

\* a request arrives: requireClassKey, upload.array, the handler up to its
\* first await
JArrive(headerKey, input, dotNames) ==
  /\ JLoopIdle
  /\ jarrived < NumReqJobs
  /\ LET r == jarrived + 1
         originalnames == OriginalNames(input.sent, dotNames)
     IN
     /\ jarrived' = r
     /\ IF ~JAuthPasses(headerKey)
          THEN JRespond(r, "Unauthorized") /\ jreq' = jreq
          ELSE /\ jreq' = [jreq EXCEPT ![r] = [sent |-> input.sent,
                                               files |-> originalnames,
                                               spec |-> input.spec]]
               /\ IF NoFiles(originalnames)
                    THEN JRespond(r, "NoFilesError")
                  ELSE IF jvariant = "early" /\ input.spec = <<>>
                    THEN JRespond(r, "MissingSpec")
                  ELSE /\ jpc' = [jpc EXCEPT ![r] = "mkLayers"]
                       /\ jresp' = jresp
  /\ UNCHANGED <<jout, jvariant, jUp, jtick, jdirs, jfiles, jsaved, jchild>>

\* await fsp.mkdir(layersDir, { recursive: true }) completes
JMkLayersDone(r) ==
  /\ JLoopIdle
  /\ jpc[r] = "mkLayers"
  /\ jdirs' = jdirs \cup {JobDir(r), LayersDir(r)}
  /\ jpc' = [jpc EXCEPT ![r] = "mkOut"]
  /\ UNCHANGED <<jout, jvariant, jUp, jarrived, jtick, jreq, jresp, jfiles, jsaved,
                 jchild>>

\* await fsp.mkdir(outDir, { recursive: true }) completes; the loop starts
JMkOutDone(r) ==
  /\ JLoopIdle
  /\ jpc[r] = "mkOut"
  /\ jdirs' = jdirs \cup {OutDir(r)}
  /\ jpc' = [jpc EXCEPT ![r] = "writeLayer"]
  /\ UNCHANGED <<jout, jvariant, jUp, jarrived, jtick, jreq, jresp, jfiles, jsaved,
                 jchild>>

\* const dest = path.join(layersDir, f.originalname)
UploadDest(r, originalname) == Join(LayersDir(r), originalname)

\* await fsp.writeFile(dest, f.buffer) completes for the next file; after the
\* last one the spec field is written to spec.json
JWriteLayerDone(r) ==
  /\ JLoopIdle
  /\ jpc[r] = "writeLayer"
  /\ LET i == jsaved[r] + 1
         dest == UploadDest(r, jreq[r].files[i])
     IN IF JWriteFails(dest)
          THEN /\ JRespond(r, "ServerError")
               /\ UNCHANGED <<jfiles, jsaved>>
          ELSE /\ jfiles' = (dest :> <<r, i>>) @@ jfiles
               /\ jsaved' = [jsaved EXCEPT ![r] = i]
               /\ IF i < Len(jreq[r].files)
                    THEN UNCHANGED <<jpc, jresp>>
                  ELSE IF jvariant = "late" /\ jreq[r].spec = <<>>
                    THEN JRespond(r, "MissingSpec")
                  ELSE /\ jpc' = [jpc EXCEPT ![r] = "writeSpec"]
                       /\ jresp' = jresp
  /\ UNCHANGED <<jout, jvariant, jUp, jarrived, jtick, jreq, jdirs, jchild>>

\* await fsp.writeFile(specPath, req.body.spec) completes; it is read back
JWriteSpecDone(r) ==
  /\ JLoopIdle
  /\ jpc[r] = "writeSpec"
  /\ jfiles' = (SpecPath(r) :> <<r, 0>>) @@ jfiles
  /\ jpc' = [jpc EXCEPT ![r] = "readSpec"]
  /\ UNCHANGED <<jout, jvariant, jUp, jarrived, jtick, jreq, jresp, jdirs, jsaved,
                 jchild>>

\* await fsp.readFile(specPath) completes: the first character is checked,
\* then spawn, the listeners and the timer; the handler returns
JReadSpecDone(r, spawnOk) ==
  /\ JLoopIdle
  /\ jpc[r] = "readSpec"
  /\ IF ~SpecLooksLikeJson(jreq[r].spec)
       THEN /\ JRespond(r, "InvalidSpecJSON")
            /\ UNCHANGED <<jchild, jtick>>
       ELSE /\ jpc' = [jpc EXCEPT ![r] = "running"]
            /\ jresp' = jresp
            /\ IF spawnOk
                 THEN /\ jchild' = [jchild EXCEPT ![r].st = "running",
                                                  ![r].timer = "armed"]
                      /\ jtick' = jtick
                 ELSE /\ jchild' = [jchild EXCEPT ![r].st = "failed",
                                                  ![r].timer = "armed"]
                      /\ jtick' = r
  /\ UNCHANGED <<jout, jvariant, jUp, jarrived, jreq, jdirs, jfiles, jsaved>>

\* the 'error' event of a child that could not be spawned: no listener
JChildErrorEvent ==
  /\ jUp
  /\ jtick # 0
  /\ jUp' = FALSE
  /\ jtick' = 0
  /\ UNCHANGED <<jout, jvariant, jarrived, jpc, jreq, jresp, jdirs, jfiles, jsaved,
                 jchild>>

\* setTimeout(() => { child.kill("SIGKILL"); }, RENDER_TIMEOUT_MS)
JTimerFire(r) ==
  /\ JLoopIdle
  /\ jchild[r].timer = "armed"
  /\ jchild' = [jchild EXCEPT ![r].st = IF @ = "running" THEN "killed" ELSE @,
                              ![r].signal = KillSignal,
                              ![r].timer = "fired"]
  /\ UNCHANGED <<jout, jvariant, jUp, jarrived, jtick, jpc, jreq, jresp, jdirs,
                 jfiles, jsaved>>

\* what the renderer left in out/ when it closed: both files, or nothing (it
\* was killed, it failed, or it ended by exit() before it saved anything; the
\* sketch saves its two files last)
RendererWrote == {{}, {PreviewName, PesName}}

\* child.on("close", (code) => ...): clearTimeout; code !== 0 is a failure,
\* anything else the success response
JChildClose(r, code, wrote) ==
  /\ JLoopIdle
  /\ jchild[r].st \in {"running", "killed"}
  /\ code = "null" <=> jchild[r].st = "killed"
  /\ code # "0" => wrote = {}
  /\ jchild' = [jchild EXCEPT ![r].st = "closed", ![r].exitCode = code,
                              ![r].timer = ClearTimeout(@)]
  /\ jout' = [jout EXCEPT ![r] = wrote]
  /\ IF code # "0" THEN JRespond(r, "RenderExitError") ELSE JRespond(r, "ok")
  /\ UNCHANGED <<jvariant, jUp, jarrived, jtick, jreq, jdirs, jfiles, jsaved>>

VARIABLES
  badKey,     \* history: requests whose x-class-key was missing or not
              \* the configured key
  gone        \* history: requests whose client went away while they waited

clientVars == <<badKey, gone>>

InitClients ==
  /\ badKey = {}
  /\ gone = {}

\* CLASS_KEY = process.env.CLASS_KEY || "": the key of a run, if one is set
ConfiguredKey == IF REQUIRE_CLASS_KEY THEN CLASS_KEY ELSE ""

\* the header of the arriving request is noted
NoteKey(headerKey) ==
  /\ badKey' = IF headerKey = "" \/ headerKey # ConfiguredKey
                 THEN badKey \cup {arrived + 1}
                 ELSE badKey
  /\ gone' = gone

\* the client of a waiting request closes the connection.  The handler has
\* no listener for it and there is no route that cancels a job: nothing
\* changes in the server.
ClientGone(r) ==
  /\ pc[r] = "waiting"
  /\ r \notin gone
  /\ gone' = gone \cup {r}
  /\ badKey' = badKey

(***************************************************************************)
(* Artifact retrieval.  GET /api/jobs/:id/:file (src/web/server.js 189-201, *)
(* src/unnamed/part_000 230-237) takes the file name from the URL; GET      *)
(* /api/job/:id/preview and /pes (src/web/server.js 571-590) name the file  *)
(* themselves.  A URL segment is a sequence of characters in which "%2F"    *)
(* and "%2E" are the escapes of "/" and "."; a name such as "spec.json"     *)
(* counts as one character.                                                *)
(***************************************************************************)
VARIABLES
  gdisk,      \* the files under JOBS_ROOT
  gresp       \* the last retrieval: route, id, file parameter, status, path

getVars == <<gdisk, gresp>>

\* the job whose artifacts are asked for, and a job id no directory has
GetIds == {1, 2}

\* what a finished job's directory can hold
GetDiskFiles ==
  { Append(OutDir(1), <<PreviewName>>),
    Append(OutDir(1), <<PesName>>),
    Append(OutDir(1), <<"other.svg">>),
    SpecPath(1),
    Append(LayersDir(1), <<"a.png">>) }

\* the :file segment of the URL as the client sends it
GetSelectors ==
  { <<PreviewName>>, <<PesName>>, <<"other.svg">>, <<"none.png">>,
    <<".", ".", "%2F", "spec.json">>,
    <<"%2E", "%2E", "%2F", "layers", "%2F", "a.png">> }

NoGet == [route |-> "none", id |-> 0, file |-> <<>>, status |-> "none", path |-> <<>>]

InitGetIdle ==
  /\ gdisk = {}
  /\ gresp = NoGet

InitGet ==
  /\ gdisk \in SUBSET GetDiskFiles
  /\ gresp = NoGet

\* req.params.file: the router matches one segment ([^/]+) and decodes it
DecodeURIComponent(s) ==
  [i \in 1..Len(s) |-> IF s[i] = "%2F" THEN "/"
                       ELSE IF s[i] = "%2E" THEN "."
                       ELSE s[i]]

\* fs.existsSync(filePath) and res.sendFile(filePath), or
\* fileExists(p) and fs.createReadStream(p).pipe(res): a file is streamed,
\* anything else is "Not found"
GetStatus(p) == IF p \in gdisk THEN "sent" ELSE "notFound"

\* GET /api/jobs/:id/:file
GetJobFile(id, rawFile) ==
  LET file == DecodeURIComponent(rawFile)
      filePath == Join(OutDir(id), file)
  IN /\ gresp' = [route |-> "jobs", id |-> id, file |-> rawFile,
                  status |-> GetStatus(filePath), path |-> filePath]
     /\ gdisk' = gdisk

\* GET /api/job/:id/preview
GetPreview(id) ==
  LET previewPath == Join(OutDir(id), <<PreviewName>>)
  IN /\ gresp' = [route |-> "preview", id |-> id, file |-> <<>>,
                  status |-> GetStatus(previewPath), path |-> previewPath]
     /\ gdisk' = gdisk

\* GET /api/job/:id/pes
GetPes(id) ==
  LET pesPath == Join(OutDir(id), <<PesName>>)
  IN /\ gresp' = [route |-> "pes", id |-> id, file |-> <<>>,
                  status |-> GetStatus(pesPath), path |-> pesPath]
     /\ gdisk' = gdisk

\* the two expected outputs of a job
ExpectedOutputs(id) ==
  { Append(OutDir(id), <<PreviewName>>), Append(OutDir(id), <<PesName>>) }

\* C21: a retrieval request is answered with a file only if that file is
\* out/preview.png or out/design.pes of the job the request names; every
\* other request is answered "Not found".
C21_OnlyExpectedOutputsServed ==
  gresp.status = "sent" => gresp.path \in ExpectedOutputs(gresp.id)

(***************************************************************************)
(* The renderer sketch (src/unnamed/part_003 22-241): setup() reads the     *)
(* job's spec.json, takes the name of the design file from spec.output,     *)
(* renders, saves and ends the process with exit().  A word such as         *)
(* "design" counts as one character of a file name.                        *)
(***************************************************************************)
VARIABLES
  rPhase,          \* where setup() is: "idle", "start", "loaded", "configured",
                   \* "exited"
  rSpec,           \* spec.json of the job as the sketch reads it
  filenameBase,    \* String filenameBase
  format,          \* String format
  outputFilePath,  \* String outputFilePath, resolved as the file system does
  rOut,            \* the files the sketch has written
  rDone,           \* println("DONE.") was reached
  rExit            \* the exit code of the process, or "none"

rendVars == <<rPhase, rSpec, filenameBase, format, outputFilePath, rOut, rDone,
              rExit>>

\* spec.output.filename and spec.output.format of the specs fed to the sketch
OutputFilenames == { <<"design">>, <<"other">>, <<".", ".", "/", "design">> }
OutputFormats == { <<"pes">>, <<"PES">>, <<"dst">> }

NoOutput == [given |-> FALSE, hasFilename |-> FALSE, filename |-> <<>>,
             hasFormat |-> FALSE, format |-> <<>>]

\* spec.output: absent, or an object with or without filename and format
OutputConfigs ==
  {NoOutput} \cup
  { [given |-> TRUE, hasFilename |-> hf, filename |-> IF hf THEN fn ELSE <<>>,
     hasFormat |-> hx, format |-> IF hx THEN fx ELSE <<>>] :
      hf \in BOOLEAN, fn \in OutputFilenames, hx \in BOOLEAN, fx \in OutputFormats }

\* spec.json: whether loadJSONObject returns it, its output object, and the
\* number of its layers
SketchSpecs == [loads : BOOLEAN, output : OutputConfigs, layers : {0, 1}]

NoSketchSpec == [loads |-> FALSE, output |-> NoOutput, layers |-> 0]

InitRendIdle ==
  /\ rPhase = "idle"
  /\ rSpec = NoSketchSpec
  /\ filenameBase = <<>>
  /\ format = <<>>
  /\ outputFilePath = <<>>
  /\ rOut = {}
  /\ rDone = FALSE
  /\ rExit = "none"

\* the process starts on job 1: String filenameBase = "design", format = "pes"
\* are the values before the spec is read
InitRend ==
  /\ rPhase = "start"
  /\ rSpec \in SketchSpecs
  /\ filenameBase = <<>>
  /\ format = <<>>
  /\ outputFilePath = <<>>
  /\ rOut = {}
  /\ rDone = FALSE
  /\ rExit = "none"

\* exit(): Processing ends the process with code 0
SketchExit ==
  /\ rPhase' = "exited"
  /\ rExit' = "0"

\* spec = loadJSONObject(specPath); if (spec == null) { println; exit(); }
LoadSpec ==
  /\ rPhase = "start"
  /\ IF rSpec.loads
       THEN rPhase' = "loaded" /\ rExit' = rExit
       ELSE SketchExit
  /\ UNCHANGED <<rSpec, filenameBase, format, outputFilePath, rOut, rDone>>

\* .toLowerCase()
ToLowerCase(s) == [i \in 1..Len(s) |-> IF s[i] = "PES" THEN "pes" ELSE s[i]]

\* 5) Output config and E.setPath(outputFilePath)
OutputConfig ==
  /\ rPhase = "loaded"
  /\ LET output == rSpec.output
         base == IF output.given /\ output.hasFilename THEN output.filename
                 ELSE <<"design">>
         fmt == IF output.given /\ output.hasFormat THEN ToLowerCase(output.format)
                ELSE <<"pes">>
     IN /\ filenameBase' = base
        /\ format' = fmt
        /\ outputFilePath' = Join(OutDir(1), base \o <<".">> \o fmt)
  /\ rPhase' = "configured"
  /\ UNCHANGED <<rSpec, rOut, rDone, rExit>>

\* layers == null || layers.size() == 0: println, E.endDraw(), exit().
\* Whether endDraw writes a file for an empty design is the library's matter.
EmptyLayers(wrote) ==
  /\ rPhase = "configured"
  /\ rSpec.layers = 0
  /\ rOut' = IF wrote THEN rOut \cup {outputFilePath} ELSE rOut
  /\ SketchExit
  /\ UNCHANGED <<rSpec, filenameBase, format, outputFilePath, rDone>>

\* the layers are rendered; save(outDir + "/preview.png"); E.endDraw() writes
\* the design to the path set; println("DONE."); exit()
RenderAndSave ==
  /\ rPhase = "configured"
  /\ rSpec.layers > 0
  /\ rOut' = rOut \cup {Append(OutDir(1), <<"preview", ".", "png">>), outputFilePath}
  /\ rDone' = TRUE
  /\ SketchExit
  /\ UNCHANGED <<rSpec, filenameBase, format, outputFilePath>>

\* out/design.pes and out/preview.png, the names the server checks and serves
ExpectedDesignPath == Append(OutDir(1), <<"design", ".", "pes">>)
ExpectedPreviewPath == Append(OutDir(1), <<"preview", ".", "png">>)

\* C27: when the sketch has run to its end, out/design.pes and
\* out/preview.png have been written, whatever spec.output says.
C27_OutputsAtFixedNames ==
  rDone => {ExpectedDesignPath, ExpectedPreviewPath} \subseteq rOut

(***************************************************************************)
(* The retention sweeper of the gated server: cleanupOldJobs               *)
(* (src/web/server.js 342-365), started and not awaited after the success  *)
(* response of POST /api/generate (560).  Time is counted in hours.        *)
(***************************************************************************)
VARIABLES
  now,        \* Date.now()
  KEEP_ENV,   \* process.env.KEEP_JOBS_HOURS
  mtime,      \* modification time of each job's directory
  sweep,      \* the sweep each request started: its place, its cutoff, and
              \* what became of each directory it listed
  removedBy   \* history: the sweeps whose rm removed the job's directory

sweepVars == <<now, KEEP_ENV, mtime, sweep, removedBy>>

vars == <<serverVars, sanVars, jobsVars, clientVars, sweepVars, getVars, rendVars>>

\* KEEP_JOBS_HOURS of a run: not set, "0", "1"
KeepSettings == {"unset", "0", "1"}

KeepDefault == 24

\* Number(process.env.KEEP_JOBS_HOURS || 24)
KEEP_JOBS_HOURS ==
  IF KEEP_ENV = "unset" THEN KeepDefault
  ELSE IF KEEP_ENV = "0" THEN 0
  ELSE 1

NoSweep ==
  [st |-> "none", at |-> 0, cutoff |-> 0,
   entry |-> [d \in Reqs |-> "none"], seen |-> [d \in Reqs |-> 0]]

InitSweepIdle ==
  /\ now = 0
  /\ KEEP_ENV = "unset"
  /\ mtime = [r \in Reqs |-> 0]
  /\ sweep = [r \in Reqs |-> NoSweep]
  /\ removedBy = [r \in Reqs |-> {}]

InitSweep ==
  /\ now = 0
  /\ KEEP_ENV \in KeepSettings
  /\ mtime = [r \in Reqs |-> 0]
  /\ sweep = [r \in Reqs |-> NoSweep]
  /\ removedBy = [r \in Reqs |-> {}]

\* time passes
Tick ==
  /\ now < MaxTime
  /\ now' = now + 1
  /\ UNCHANGED <<KEEP_ENV, mtime, sweep, removedBy>>

\* an entry is made in the job's directory (layers/, out/, spec.json): the
\* file system sets the directory's modification time
Touch(r) ==
  /\ mtime' = [mtime EXCEPT ![r] = IF JobDir(r) \in dirs'[r] THEN now ELSE @]
  /\ UNCHANGED <<now, KEEP_ENV, sweep, removedBy>>

\* cleanupOldJobs() after the success response: readdir is pending
StartSweep(r) ==
  /\ sweep' = [sweep EXCEPT ![r].st = IF resp'[r] = "ok" THEN "readdir" ELSE @]
  /\ UNCHANGED <<now, KEEP_ENV, mtime, removedBy>>

\* a plausible slip: the retention age is added
Cutoff_Plus(nowH, keep) == nowH + keep

\* const cutoff = Date.now() - KEEP_JOBS_HOURS * 3600 * 1000
Cutoff(nowH, keep) == nowH - keep

\* if (stat.mtimeMs < cutoff)
IsExpired(mtimeH, cutoff) == mtimeH < cutoff

\* a plausible slip: one try/catch around a loop over the entries
AfterEntryFailure_Abort(st) == "failed"

\* catch { // ignore } inside the callback of each entry: the sweep goes on
AfterEntryFailure(st) == st

SweepEntryEnded(label) == label \in {"none", "kept", "removed", "statFailed", "rmFailed"}

\* await fsp.readdir(JOBS_ROOT) completes: the cutoff is computed and a stat
\* is started for every directory listed; a readdir that fails ends the sweep
SweepReaddirDone(r, ok) ==
  /\ LoopIdle
  /\ sweep[r].st = "readdir"
  /\ sweep' = [sweep EXCEPT
       ![r] = IF ok
                THEN [st |-> "scanning", at |-> now,
                      cutoff |-> Cutoff(now, KEEP_JOBS_HOURS),
                      entry |-> [d \in Reqs |->
                                  IF JobDir(d) \in dirs[d] THEN "stat" ELSE "none"],
                      seen |-> @.seen]
                ELSE [@ EXCEPT !.st = "failed"]]
  /\ UNCHANGED <<now, KEEP_ENV, mtime, removedBy>>

\* await fsp.stat(jobPath) completes for one directory: an expired one gets
\* its rm started; a stat that fails (the directory is gone, or any other
\* reason) is ignored
SweepStatDone(r, d, ok) ==
  /\ LoopIdle
  /\ sweep[r].st = "scanning"
  /\ sweep[r].entry[d] = "stat"
  /\ ok => JobDir(d) \in dirs[d]
  /\ sweep' = [sweep EXCEPT
       ![r].entry[d] = IF ~ok THEN "statFailed"
                       ELSE IF IsExpired(mtime[d], sweep[r].cutoff) THEN "rm"
                       ELSE "kept",
       ![r].seen[d] = IF ok THEN mtime[d] ELSE @,
       ![r].st = IF ok THEN @ ELSE AfterEntryFailure(@)]
  /\ UNCHANGED <<now, KEEP_ENV, mtime, removedBy>>

\* await fsp.rm(jobPath, { recursive: true, force: true }) completes: the
\* directory and everything under it is gone, or the rm failed and is ignored
SweepRmDone(r, d, ok) ==
  /\ LoopIdle
  /\ sweep[r].st = "scanning"
  /\ sweep[r].entry[d] = "rm"
  /\ IF ok
       THEN /\ sweep' = [sweep EXCEPT ![r].entry[d] = "removed"]
            /\ removedBy' = [removedBy EXCEPT
                 ![d] = IF JobDir(d) \in dirs[d] THEN @ \cup {r} ELSE @]
            /\ dirs' = [dirs EXCEPT ![d] = {}]
            /\ files' = [files EXCEPT ![d] = <<>>]
            /\ specFile' = [specFile EXCEPT ![d] = NoSpecFile]
            /\ mtime' = [mtime EXCEPT ![d] = 0]
       ELSE /\ sweep' = [sweep EXCEPT ![r].entry[d] = "rmFailed",
                                     ![r].st = AfterEntryFailure(@)]
            /\ UNCHANGED <<removedBy, dirs, files, specFile, mtime>>
  /\ UNCHANGED <<now, KEEP_ENV, out, regime, MAX_CONCURRENT, REQUIRE_CLASS_KEY,
                 serverUp, arrived, active, queue, micro, admitted, pc, req,
                 resp, savedNames, child, checks>>

\* Promise.all has resolved: every directory listed has been dealt with
SweepFinished(r) ==
  /\ sweep[r].st = "scanning"
  /\ \A d \in Reqs : SweepEntryEnded(sweep[r].entry[d])


\* the sweep's stat of the directory succeeded
SweepSaw(r, d) == sweep[r].entry[d] \in {"kept", "removed", "rmFailed"}

C13_ZeroOrUnsetDisablesSweeping ==
  KEEP_ENV \in {"unset", "0"} => \A d \in Reqs : removedBy[d] = {}

SweepEntryFailed(r, d) == sweep[r].entry[d] \in {"statFailed", "rmFailed"}

\* C14: a stat or rm that fails for one directory does not stop the sweep:
\* every other directory listed is still being dealt with or has been, the
\* expired ones among them are removed, and the request that started the
\* sweep keeps its success response.
C14_SweepIsBestEffort ==
  \A r, d \in Reqs :
    SweepEntryFailed(r, d) =>
      /\ resp[r] = "ok"
      /\ \A e \in Reqs \ {d} :
           /\ sweep[r].entry[e] \in {"stat", "rm"} => sweep[r].st = "scanning"
           /\ (SweepSaw(r, e) /\ IsExpired(sweep[r].seen[e], sweep[r].cutoff)
               /\ ~SweepEntryFailed(r, e)) => removedBy[e] # {}

\* a sweep has finished in which one directory failed and another, expired
\* one, was removed
C14_Witness ==
  \E r, d, e \in Reqs :
    /\ SweepFinished(r)
    /\ SweepEntryFailed(r, d)
    /\ r \in removedBy[e]
    /\ resp[r] = "ok"

\* C15: with a positive retention age, a job's directory that has become
\* older than the retention age is eventually removed, whether or not another
\* request comes.
C15_ExpiredEventuallyDeleted ==
  \A d \in 1..NumReqSweep :
    (/\ KEEP_JOBS_HOURS > 0
     /\ JobDir(d) \in dirs[d]
     /\ mtime[d] < now - KEEP_JOBS_HOURS) ~> (JobDir(d) \notin dirs[d])

\* the status of a job as the handler's place and its response show it: no
\* job yet, waiting for a slot, holding one and not answered, answered
JobStatus(r) ==
  IF pc[r] \in {"idle", "unauthorized"} THEN "none"
  ELSE IF pc[r] \in {"waiting", "woken"} THEN "queued"
  ELSE IF resp[r] = "none" THEN "running"
  ELSE IF resp[r] = "ok" THEN "done"
  ELSE "error"

StatusChanges ==
  {<<"none", "queued">>, <<"none", "running">>, <<"queued", "running">>,
   <<"running", "done">>, <<"running", "error">>,
   <<"queued", "canceled">>, <<"running", "canceled">>}

\* C16: a job's status changes only along queued -> running -> done or error
\* (or to canceled), and a response, once sent, is never changed by a later
\* step: not by the close of a killed renderer, a sweep or another request.
C16_StatusMovesForwardOnly ==
  [][\A r \in 1..NumReqSweep :
       /\ JobStatus(r)' # JobStatus(r) =>
            <<JobStatus(r), JobStatus(r)'>> \in StatusChanges
       /\ resp[r] # "none" => resp'[r] = resp[r]]_vars

\* a renderer killed by its timer has closed after the timeout response, and
\* the sweep of a later, successful job is under way
C16_Witness ==
  \E r, q \in Reqs :
    /\ resp[r] = "RenderTimeout" /\ child[r].st = "closed"
    /\ resp[q] = "ok" /\ sweep[q].st = "scanning"

\* C17: a job whose client gave up while it waited is taken out of the wait
\* list at once: it is not in the queue, it is never started and no renderer
\* is spawned for it.
C17_CanceledWaiterNeverRuns ==
  \A r \in gone :
    /\ \A i \in 1..Len(queue) : queue[i] # r
    /\ \A i \in 1..Len(admitted) : admitted[i] # r
    /\ child[r].st = "none"

\* the 1-based index of a waiting request in the wait list
QueuePosition(r) == CHOOSE i \in 1..Len(queue) : queue[i] = r

\* C18: with MAX_CONCURRENT = 1 and three accepted requests A, B, C in that
\* order: A never waits; while A runs, B and C are queued at positions 1 and
\* 2; once A has finished and B runs, C is queued at position 1.
C18_ThreeJobsOneSlot ==
  (MAX_CONCURRENT = 1 /\ arrived = 3 /\ micro = <<>>
   /\ \A r \in 1..3 : resp[r] # "Unauthorized") =>
    /\ JobStatus(1) # "queued"
    /\ JobStatus(1) = "running" =>
         /\ JobStatus(2) = "queued" /\ QueuePosition(2) = 1
         /\ JobStatus(3) = "queued" /\ QueuePosition(3) = 2
    /\ (pc[1] = "done" /\ JobStatus(2) = "running") =>
         JobStatus(3) = "queued" /\ QueuePosition(3) = 1

\* A has finished, B runs and C waits at position 1
C18_Witness ==
  /\ MAX_CONCURRENT = 1 /\ arrived = 3 /\ micro = <<>>
  /\ \A r \in 1..3 : resp[r] # "Unauthorized"
  /\ pc[1] = "done" /\ resp[1] = "ok"
  /\ JobStatus(2) = "running" /\ child[2].st = "running"
  /\ queue = <<3>>

\* the renderer of the job is alive
InFlight(r) == child[r].st \in {"running", "killed"}

\* C19: renderers that are alive at the same time belong to different job
\* ids and job directories, and a job's renderer is spawned at most once.
C19_OneRendererPerJobId ==
  [][/\ \A r, q \in 1..NumReq :
          (r # q /\ InFlight(r)' /\ InFlight(q)') =>
            JobId(r) # JobId(q) /\ JobDir(r) # JobDir(q)
     /\ \A r \in 1..NumReq :
          child[r].st # "none" =>
            /\ child'[r].st # "none"
            /\ child'[r].st \in {"running", "failed"} => child'[r].st = child[r].st]_vars

\* two renderers are alive at once, each spawned for its own job
C19_Witness ==
  \E r, q \in Reqs : r # q /\ child[r].st = "running" /\ child[q].st = "running"

\* C20: a request whose x-class-key is missing or is not the configured key
\* is answered 401, and no directory, slot or renderer exists for it,
\* whether a key is configured or not.
C20_BadKeyIsRejected ==
  \A r \in badKey :
    /\ resp[r] = "Unauthorized"
    /\ dirs[r] = {}
    /\ child[r].st = "none"
    /\ \A i \in 1..Len(admitted) : admitted[i] # r
    /\ \A i \in 1..Len(queue) : queue[i] # r

\* the requests that called withConcurrency
GateSubmissions == {r \in Reqs : pc[r] \notin {"idle", "unauthorized"}}

\* the requests that passed the gate: the list was not full when they came,
\* or the finally block of an earlier job took them out of the list
GateAdmissions == {r \in GateSubmissions : pc[r] # "waiting"}

\* the waiters taken out of the list without being admitted: the source has
\* no operation that does it
GateCancellations == {}

\* C22: the length of the wait list is the number of submissions minus the
\* number of admissions minus the number of cancellations while waiting.
C22_WaitListAccounting ==
  Len(queue) = Cardinality(GateSubmissions) - Cardinality(GateAdmissions)
                 - Cardinality(GateCancellations)

\* a waiter has just been taken out of the list and another one still waits
C22_Witness ==
  /\ queue # <<>>
  /\ \E r \in Reqs : pc[r] = "woken"

\* the handler of POST /api/generate has looked at req.files
FilesLookedAt(r) ==
  pc[r] \notin {"idle", "unauthorized", "waiting", "woken", "mkLayers", "mkOut"}

C24_JobsSuccessNeedsOutputs ==
  \A r \in JReqs :
    jresp[r] = "ok" =>
      /\ jchild[r].exitCode = "0"
      /\ {PreviewName, PesName} \subseteq jout[r]

\* C25: when the timer of POST /api/jobs has killed the renderer, the
\* response is of the timeout kind, not the kind given to a renderer that
\* ended by itself with a nonzero code.
C25_JobsTimeoutIsItsOwnKind ==
  \A r \in JReqs :
    (jchild[r].signal = KillSignal /\ jresp[r] # "none") =>
      jresp[r] = "RenderTimeout"

\* C26: the spec.json made for a request without a spec field has one
\* layer per uploaded file, in upload order, and the file of the i-th layer
\* is a file of layers/ that holds the i-th upload.
C26_DefaultSpecMapsUploads ==
  \A r \in Reqs :
    (specFile[r].written /\ ~req[r].spec.given) =>
      /\ Len(specFile[r].layers) = Len(req[r].files)
      /\ \A i \in 1..Len(specFile[r].layers) :
           LET p == Join(LayersDir(r), specFile[r].layers[i]) IN
             /\ StrictlyInside(LayersDir(r), p)
             /\ p \in DOMAIN files[r]
             /\ files[r][p] = i

\* the timer of a render invocation and its child agree: armed from spawn
\* on, cleared by a close that comes first, and SIGKILL goes only to a child
\* that has not closed
TimerAgrees(c, response) ==
  /\ c.st = "none" <=> c.timer = "none"
  /\ c.st = "running" => c.timer = "armed"
  /\ c.st = "killed" => c.timer = "fired" /\ c.signal = KillSignal
  /\ (c.st = "closed" /\ c.exitCode # "null") =>
       /\ c.timer = "cleared"
       /\ c.signal = "none"
       /\ response # "RenderTimeout"
  /\ (c.st = "closed" /\ c.exitCode = "null") =>
       c.timer = "fired" /\ c.signal = KillSignal

\* C28: every render invocation has one timer, armed at spawn; when the
\* child's close is handled first the timer is cleared, no SIGKILL is sent
\* to the closed child and the response is not of the timeout kind.
C28_TimerClearedOnClose ==
  /\ \A r \in Reqs : TimerAgrees(child[r], resp[r])
  /\ \A r \in JReqs : TimerAgrees(jchild[r], jresp[r])

\* a renderer of POST /api/generate ended by itself with a failure code and
\* its timer was cleared
C28_Witness ==
  \E r \in Reqs :
    /\ child[r].st = "closed"
    /\ child[r].exitCode = "1"
    /\ child[r].timer = "cleared"
    /\ resp[r] = "RenderExitError"

\* no request is in progress
GateQuiet == \A r \in Reqs : pc[r] \in {"idle", "unauthorized", "done"}

\* the ways a job ends
ExitKinds ==
  {"NoFilesError", "InvalidSpecJSON", "BadLayers", "ServerError",
   "RenderTimeout", "RenderExitError", "IncompleteOutputError", "ok"}

\* C29: active is never negative, it is the number of jobs that have started
\* and not yet released their slot, whatever way they end, and when no
\* request is in progress it is 0 and the wait list is empty.
C29_EveryExitReleasesItsSlot ==
  /\ active >= 0
  /\ active = Cardinality(SlotHolders)
  /\ \A r \in Reqs : pc[r] = "done" => resp[r] \in ExitKinds
  /\ GateQuiet => active = 0 /\ queue = <<>>

\* every request has ended, one in the catch block and one with a validation
\* error, and the slot is free
C29_Witness ==
  /\ arrived = NumRequests
  /\ GateQuiet
  /\ active = 0
  /\ \E r, q \in Reqs :
       /\ resp[r] = "ServerError"
       /\ resp[q] \in {"NoFilesError", "InvalidSpecJSON", "BadLayers"}

\* the job of request r has been started (active++ was reached)
Started(r) == pc[r] \notin {"idle", "unauthorized", "waiting", "woken"}

\* every request that has arrived has been started, unless it was turned
\* away by authMiddleware, and has been answered
AllServed ==
  \A r \in Reqs :
    pc[r] # "idle" => /\ pc[r] = "unauthorized" \/ Started(r)
                      /\ resp[r] # "none"

\* C30: no waiter is left in the list while a slot is free, and, as long as
\* the server runs and every pending operation completes (a renderer closes
\* or its timer fires), every request that waits is eventually started and
\* every request that arrived is eventually answered: whatever has arrived,
\* a state comes in which all of it has been started and answered.
C30_NoLostWakeUp ==
  /\ []((LoopIdle /\ queue # <<>>) => active >= MAX_CONCURRENT)
  /\ []<>(AllServed \/ ~serverUp)

\* a request waits in the list behind the job that holds the slot
C30_Witness ==
  \E r, q \in Reqs :
    /\ pc[r] = "waiting"
    /\ pc[q] = "running"
    /\ active = MAX_CONCURRENT

\* this step sends a response for request r of POST /api/generate: res.json
\* or res.status(...).json is called
Answers(r) ==
  \/ resp'[r] # resp[r]
  \/ pc[r] # "finishing" /\ pc'[r] = "finishing"

\* this step sends a response for request r of POST /api/jobs
JAnswers(r) ==
  \/ jresp'[r] # jresp[r]
  \/ jpc[r] # "done" /\ jpc'[r] = "done"

\* C31: every job-creation request is answered at most once: no step of
\* POST /api/generate or of POST /api/jobs sends a response for a request
\* that has been answered (not the close of a killed renderer after the
\* timeout response, not the catch block after another response).
C31_AnsweredAtMostOnce ==
  [][/\ \A r \in Reqs : resp[r] # "none" => ~Answers(r)
     /\ \A r \in JReqs : jresp[r] # "none" => ~JAnswers(r)]_vars

\* the timeout response of POST /api/generate was sent, the slot was released
\* and then the close event of the killed renderer was handled
C31_Witness ==
  \E r \in Reqs :
    /\ resp[r] = "RenderTimeout"
    /\ pc[r] = "done"
    /\ child[r].st = "closed"
    /\ child[r].exitCode = "null"

\* the renderers that are alive: spawned, and their close event has not been
\* observed
LiveRenderers == {r \in Reqs : InFlight(r)}

\* C32: when a render invocation has released its slot its renderer has
\* closed, and the number of renderers that are alive is at most
\* MAX_CONCURRENT, also after a timeout kill.
C32_SlotReleasedAfterClose ==
  /\ \A r \in Reqs :
       (pc[r] = "done" /\ child[r].st # "none") => child[r].st = "closed"
  /\ Cardinality(LiveRenderers) <= MAX_CONCURRENT

\* this step removes the directory of job d: the rm of a sweep completed
DirRemoved(d) == JobDir(d) \in dirs[d] /\ JobDir(d) \notin dirs'[d]

\* C33: for every KEEP_JOBS_HOURS and MAX_CONCURRENT, no sweep removes the
\* directory of a job that holds a slot and has not been answered, and the
\* sweep started after a job's success response does not remove that job's
\* own directory.
C33_SweepSparesLiveJobs ==
  [][\A d \in 1..NumReqSweep :
       DirRemoved(d) => /\ JobStatus(d) # "running"
                        /\ d \notin removedBy'[d]]_vars

\* C34: a request whose spec field is not empty and parses as JSON is
\* rejected with a 400, or its spec.json is written from the parsed value:
\* the synthesized default never takes the place of a spec that was sent.
C34_SuppliedSpecIsNeverReplaced ==
  \A r \in Reqs :
    (req[r].spec.given /\ req[r].spec.parses /\ specFile[r].written) =>
      /\ ~specFile[r].synthesized
      /\ specFile[r].layers = req[r].spec.layers

\* the request passed authMiddleware and the handler will answer it with a
\* 400: no files, a spec field that does not parse, or a spec without layers
ToBeRejected(r) ==
  /\ pc[r] \notin {"idle", "unauthorized"}
  /\ \/ NoFiles(req[r].files)
     \/ req[r].spec.given /\ ~req[r].spec.parses
     \/ ClientSpecKept(r) /\ req[r].spec.layers = <<>>

\* C35: a request that is going to be rejected with a 400 neither waits for
\* a render slot nor holds one: it is answered while MAX_CONCURRENT renders
\* run, and no render waits behind it.
C35_RejectionsBypassTheGate ==
  \A r \in Reqs :
    ToBeRejected(r) => r \notin Waiters /\ r \notin SlotHolders

(***************************************************************************)
(* The specifications.                                                     *)
(***************************************************************************)
\* Spec and SpecIntake follow the requests over a time that is short against
\* the retention age: no directory is expired, and the sweeps, which would
\* remove nothing, are left out.  SpecSweep lets time pass and runs them.
ServerStep == UNCHANGED <<sanVars, jobsVars, clientVars, sweepVars, getVars, rendVars>>
ArriveStep == UNCHANGED <<sanVars, jobsVars, sweepVars, getVars, rendVars>>
SanStep == UNCHANGED <<serverVars, jobsVars, clientVars, sweepVars, getVars, rendVars>>
JobsStep == UNCHANGED <<serverVars, sanVars, clientVars, sweepVars, getVars, rendVars>>
SweepStep == UNCHANGED <<sanVars, jobsVars, clientVars, getVars, rendVars>>
ClockStep == UNCHANGED <<serverVars, sanVars, jobsVars, clientVars, getVars, rendVars>>
GetStep == UNCHANGED <<serverVars, sanVars, jobsVars, clientVars, sweepVars, rendVars>>
RendStep == UNCHANGED <<serverVars, sanVars, jobsVars, clientVars, sweepVars, getVars>>

Init == InitServer("gate") /\ InitSanIdle /\ InitJobsIdle
  /\ InitClients /\ InitSweepIdle /\ InitGetIdle /\ InitRendIdle
InitIntake == InitServer("intake") /\ InitSanIdle /\ InitJobsIdle
  /\ InitClients /\ InitSweepIdle /\ InitGetIdle /\ InitRendIdle
InitSanOnly == InitServer("off") /\ InitSan /\ InitJobsIdle
  /\ InitClients /\ InitSweepIdle /\ InitGetIdle /\ InitRendIdle
InitJobsOnly == InitServer("off") /\ InitSanIdle /\ InitJobs
  /\ InitClients /\ InitSweepIdle /\ InitGetIdle /\ InitRendIdle
InitSweepOnly == InitServer("sweep") /\ InitSanIdle /\ InitJobsIdle
  /\ InitClients /\ InitSweep /\ InitGetIdle /\ InitRendIdle
InitServers ==
  /\ \/ InitServer("intake") /\ InitJobsIdle
     \/ InitServer("off") /\ InitJobs
  /\ InitSanIdle /\ InitClients /\ InitSweepIdle /\ InitGetIdle /\ InitRendIdle
InitGetOnly == InitServer("off") /\ InitSanIdle /\ InitJobsIdle
  /\ InitClients /\ InitSweepIdle /\ InitGet /\ InitRendIdle
InitRendOnly == InitServer("off") /\ InitSanIdle /\ InitJobsIdle
  /\ InitClients /\ InitSweepIdle /\ InitGetIdle /\ InitRend

Next ==
  \/ \E k \in HeaderKeys, input \in Inputs : Arrive(k, input) /\ NoteKey(k) /\ ArriveStep
  \/ Release /\ ServerStep
  \/ Admit /\ ServerStep
  \/ ChildErrorEvent /\ ServerStep
  \/ \E r \in Reqs : MkLayersDone(r) /\ ServerStep
  \/ \E r \in Reqs : MkOutDone(r) /\ ServerStep
  \/ \E r \in Reqs : WriteLayerDone(r) /\ ServerStep
  \/ \E r \in Reqs, ok \in BOOLEAN : WriteSpecDone(r, ok) /\ ServerStep
  \/ \E r \in Reqs : TimerFire(r) /\ ServerStep
  \/ \E r \in Reqs, code \in ExitCodes : ChildClose(r, code) /\ ServerStep
  \/ \E r \in Reqs, there \in BOOLEAN : ChkPreviewDone(r, there) /\ ServerStep
  \/ \E r \in Reqs, there \in BOOLEAN : ChkPesDone(r, there) /\ ServerStep

\* what the server does without a new request
GateInternal ==
  \/ Release /\ ServerStep
  \/ Admit /\ ServerStep
  \/ ChildErrorEvent /\ ServerStep
  \/ \E r \in Reqs : MkLayersDone(r) /\ ServerStep
  \/ \E r \in Reqs : MkOutDone(r) /\ ServerStep
  \/ \E r \in Reqs : WriteLayerDone(r) /\ ServerStep
  \/ \E r \in Reqs, ok \in BOOLEAN : WriteSpecDone(r, ok) /\ ServerStep
  \/ \E r \in Reqs : TimerFire(r) /\ ServerStep
  \/ \E r \in Reqs, code \in ExitCodes : ChildClose(r, code) /\ ServerStep
  \/ \E r \in Reqs, there \in BOOLEAN : ChkPreviewDone(r, there) /\ ServerStep
  \/ \E r \in Reqs, there \in BOOLEAN : ChkPesDone(r, there) /\ ServerStep

\* Next, and clients that give up waiting
NextCancel ==
  \/ Next
  \/ \E r \in Reqs : ClientGone(r)
       /\ UNCHANGED <<serverVars, sanVars, jobsVars, sweepVars, getVars, rendVars>>

NextSan ==
  \/ SanitizeName /\ SanStep
  \/ JoinName /\ SanStep
  \/ SanitizeAgain /\ SanStep

NextJobs ==
  \/ \E k \in HeaderKeys, input \in JobsInputs, d \in DotNamePolicies :
       JArrive(k, input, d) /\ JobsStep
  \/ JChildErrorEvent /\ JobsStep
  \/ \E r \in JReqs : JMkLayersDone(r) /\ JobsStep
  \/ \E r \in JReqs : JMkOutDone(r) /\ JobsStep
  \/ \E r \in JReqs : JWriteLayerDone(r) /\ JobsStep
  \/ \E r \in JReqs : JWriteSpecDone(r) /\ JobsStep
  \/ \E r \in JReqs, ok \in BOOLEAN : JReadSpecDone(r, ok) /\ JobsStep
  \/ \E r \in JReqs : JTimerFire(r) /\ JobsStep
  \/ \E r \in JReqs, code \in ExitCodes, wrote \in RendererWrote :
       JChildClose(r, code, wrote) /\ JobsStep

\* what the server, the file system, the renderers and the clock do by
\* themselves: every step of NextSweep but the arrival of a request
SweepInternal ==
  \/ Release /\ ServerStep
  \/ Admit /\ ServerStep
  \/ ChildErrorEvent /\ ServerStep
  \/ \E r \in Reqs : MkLayersDone(r) /\ Touch(r) /\ SweepStep
  \/ \E r \in Reqs : MkOutDone(r) /\ Touch(r) /\ SweepStep
  \/ \E r \in Reqs : WriteLayerDone(r) /\ ServerStep
  \/ \E r \in Reqs, ok \in BOOLEAN : WriteSpecDone(r, ok) /\ Touch(r) /\ SweepStep
  \/ \E r \in Reqs : TimerFire(r) /\ ServerStep
  \/ \E r \in Reqs, code \in ExitCodes : ChildClose(r, code) /\ ServerStep
  \/ \E r \in Reqs, there \in BOOLEAN : ChkPreviewDone(r, there) /\ ServerStep
  \/ \E r \in Reqs, there \in BOOLEAN :
       ChkPesDone(r, there) /\ StartSweep(r) /\ SweepStep
  \/ Tick /\ ClockStep
  \/ \E r \in Reqs, ok \in BOOLEAN :
       SweepReaddirDone(r, ok) /\ ClockStep
  \/ \E r, d \in Reqs, ok \in BOOLEAN :
       SweepStatDone(r, d, ok) /\ ClockStep
  \/ \E r, d \in Reqs, ok \in BOOLEAN : SweepRmDone(r, d, ok) /\ SweepStep

NextSweep ==
  \/ \E k \in HeaderKeys, input \in Inputs : Arrive(k, input) /\ NoteKey(k) /\ ArriveStep
  \/ Release /\ ServerStep
  \/ Admit /\ ServerStep
  \/ ChildErrorEvent /\ ServerStep
  \/ \E r \in Reqs : MkLayersDone(r) /\ Touch(r) /\ SweepStep
  \/ \E r \in Reqs : MkOutDone(r) /\ Touch(r) /\ SweepStep
  \/ \E r \in Reqs : WriteLayerDone(r) /\ ServerStep
  \/ \E r \in Reqs, ok \in BOOLEAN : WriteSpecDone(r, ok) /\ Touch(r) /\ SweepStep
  \/ \E r \in Reqs : TimerFire(r) /\ ServerStep
  \/ \E r \in Reqs, code \in ExitCodes : ChildClose(r, code) /\ ServerStep
  \/ \E r \in Reqs, there \in BOOLEAN : ChkPreviewDone(r, there) /\ ServerStep
  \/ \E r \in Reqs, there \in BOOLEAN :
       ChkPesDone(r, there) /\ StartSweep(r) /\ SweepStep
  \/ Tick /\ ClockStep
  \/ \E r \in Reqs, ok \in BOOLEAN :
       SweepReaddirDone(r, ok) /\ ClockStep
  \/ \E r, d \in Reqs, ok \in BOOLEAN :
       SweepStatDone(r, d, ok) /\ ClockStep
  \/ \E r, d \in Reqs, ok \in BOOLEAN : SweepRmDone(r, d, ok) /\ SweepStep

\* one of the servers is deployed
NextServers ==
  \/ Next
  \/ NextJobs

NextGet ==
  \/ \E id \in GetIds, f \in GetSelectors : GetJobFile(id, f) /\ GetStep
  \/ \E id \in GetIds : GetPreview(id) /\ GetStep
  \/ \E id \in GetIds : GetPes(id) /\ GetStep

NextRend ==
  \/ LoadSpec /\ RendStep
  \/ OutputConfig /\ RendStep
  \/ \E wrote \in BOOLEAN : EmptyLayers(wrote) /\ RendStep
  \/ RenderAndSave /\ RendStep

Spec == Init /\ [][Next]_vars
SpecSweep == InitSweepOnly /\ [][NextSweep]_vars
\* pending operations complete and time passes; clients need not send more
SpecSweepFair == SpecSweep /\ WF_vars(SweepInternal)
\* every pending operation of the server completes, and every renderer
\* closes or has its timer fire
SpecFair == Spec /\ WF_vars(GateInternal)
SpecIntake == InitIntake /\ [][Next]_vars
SpecCancel == Init /\ [][NextCancel]_vars
SpecSan == InitSanOnly /\ [][NextSan]_vars
SpecJobs == InitJobsOnly /\ [][NextJobs]_vars
SpecServers == InitServers /\ [][NextServers]_vars
SpecRend == InitRendOnly /\ [][NextRend]_vars
SpecGet == InitGetOnly /\ [][NextGet]_vars

====
